---- MODULE Spec2Model ----
(***************************************************************************)
(* Model of the LCD driver (lcd.c) and the D/A driver (dtoa.c).            *)
(*                                                                         *)
(* lcd.c:  InitLCD, GetLCDDRValues, GetLCDDRx, LCDWrite working on the      *)
(*         memory-mapped data registers LCDDR0..LCDDR17.                    *)
(* dtoa.c: InitDtoA, WriteDtoASample working on PORTB, SPDR and SPSR.       *)
(***************************************************************************)
EXTENDS Integers, Sequences, FiniteSets, TLC

VARIABLES
    bank,        \* LCDDRn: register number -> byte
    frame,       \* per caller: the activation record of LCDWrite
    reported,    \* arguments ReportError received during the current call(s)
    bankAtCall,  \* history: the bank when the current LCDWrite was entered
    twice,       \* history: the current call repeats the previous one's arguments
    shown,       \* history: cell -> character of its last successful write since InitLCD
    inited,      \* history: InitLCD has run
    calls,       \* history: number of LCDWrite calls made
    torn,        \* history: a register store used a value that was no longer current
    dpc,         \* dtoa.c: where the caller of the D/A driver is
    Value,       \* WriteDtoASample's parameter (unsigned int, 16 bits)
    csHigh,      \* PORTB bit D2A_CS_BIT: TRUE = D/A not selected
    SPIF,        \* SPSR bit SPIF: transfer complete
    shifting,    \* the SPI hardware is shifting a byte out
    sample,      \* history: the argument of the current WriteDtoASample
    trace,       \* history: bus actions of the current call, <<what, byte, csHigh after>>
    polls,       \* history: the write-collision flag as read at each poll of the call
    pollAt,      \* history: the number of bus actions of the call before each poll
    log          \* history: collision messages sent to SCIWriteString_P in the call

lcdVars == <<bank, frame, reported, bankAtCall, twice, shown, inited, calls, torn>>

dtoaVars == <<dpc, Value, csHigh, SPIF, shifting, sample, trace, polls, pollAt, log>>

vars == <<lcdVars, dtoaVars>>

----------------------------------------------------------------------------
(* Bounds of the model *)

\* LCDWrite calls per behaviour of Spec
MaxCalls == 2

----------------------------------------------------------------------------
(* C arithmetic *)

RECURSIVE BitAnd(_, _)
\* a & b on non-negative integers
BitAnd(a, b) ==
    IF a = 0 \/ b = 0 THEN 0
    ELSE (a % 2) * (b % 2) + 2 * BitAnd(a \div 2, b \div 2)

RECURSIVE BitOr(_, _)
\* a | b on non-negative integers
BitOr(a, b) ==
    IF a = 0 THEN b
    ELSE IF b = 0 THEN a
    ELSE (IF a % 2 = 1 \/ b % 2 = 1 THEN 1 ELSE 0) + 2 * BitOr(a \div 2, b \div 2)

RECURSIVE Pow2(_)
Pow2(n) == IF n = 0 THEN 1 ELSE 2 * Pow2(n - 1)

\* a >> n
ShiftRight(a, n) == a \div Pow2(n)

\* a << n, in int
ShiftLeft(a, n) == a * Pow2(n)

\* the value an 8-bit register keeps of an int stored into it
ToByte(x) == x % 256

\* unsigned char -> char: the build decides whether plain char is signed
ToChar(b, charIsSigned) == IF charIsSigned /\ b >= 128 THEN b - 256 ELSE b

----------------------------------------------------------------------------
(* lcd.c: data *)

\* the LCDDR registers the file names
Regs == {0, 1, 2, 3, 5, 6, 7, 8, 10, 11, 12, 13, 15, 16, 17}

\* NumberSegments with the entry of 9 copied into that of 4
NumberSegmentsTypo(index) ==
    CASE index = 0 -> \H1551
      [] index = 1 -> \H0110
      [] index = 2 -> \H1E11
      [] index = 3 -> \H1B11
      [] index = 4 -> \H0B51
      [] index = 5 -> \H1B41
      [] index = 6 -> \H1F40
      [] index = 7 -> \H0111
      [] index = 8 -> \H1F51
      [] index = 9 -> \H0B51

\* const static unsigned int NumberSegments[10], indexed from 0
NumberSegments(index) ==
    CASE index = 0 -> \H1551
      [] index = 1 -> \H0110
      [] index = 2 -> \H1E11
      [] index = 3 -> \H1B11
      [] index = 4 -> \H0B50
      [] index = 5 -> \H1B41
      [] index = 6 -> \H1F40
      [] index = 7 -> \H0111
      [] index = 8 -> \H1F51
      [] index = 9 -> \H0B51

\* the value of a char local that has not been assigned
Undef == -1

\* character constants
Ch0 == 48
Ch9 == 57
ChSpace == 32

\* case 0 assigning LCDDR10 twice and LCDDR15 never
CaseRegsRepeat(LCDDRx) ==
    CASE LCDDRx = 0 -> <<0, 5, 10, 10>>
      [] LCDDRx = 1 -> <<1, 6, 11, 16>>
      [] LCDDRx = 2 -> <<2, 7, 12, 17>>
      [] OTHER -> <<>>

\* the registers each case of LCDWrite's switch assigns, in statement order
CaseRegs(LCDDRx) ==
    CASE LCDDRx = 0 -> <<0, 5, 10, 15>>
      [] LCDDRx = 1 -> <<1, 6, 11, 16>>
      [] LCDDRx = 2 -> <<2, 7, 12, 17>>
      [] OTHER -> <<>>

----------------------------------------------------------------------------
(* lcd.c: functions *)

\* GetLCDDRValues without its last else: every non-digit is taken as a blank
GetLCDDRValuesBlankElse(LCDChar, out) ==
    LET index == LCDChar - Ch0 IN
    IF LCDChar >= Ch0 /\ LCDChar <= Ch9
    THEN [error |-> "NO_ERROR",
          out |-> << BitAnd(NumberSegments(index), \H000F),
                     ShiftRight(BitAnd(NumberSegments(index), \H00F0), 4),
                     ShiftRight(BitAnd(NumberSegments(index), \H0F00), 8),
                     ShiftRight(BitAnd(NumberSegments(index), \HF000), 12) >>]
    ELSE [error |-> "NO_ERROR", out |-> <<0, 0, 0, 0>>]

\* GetLCDDRValues: out is <<*LCDDRx, *LCDDRx5, *LCDDRx10, *LCDDRx15>> before the call
GetLCDDRValues(LCDChar, out) ==
    LET index == LCDChar - Ch0 IN
    IF LCDChar >= Ch0 /\ LCDChar <= Ch9
    THEN [error |-> "NO_ERROR",
          out |-> << BitAnd(NumberSegments(index), \H000F),
                     ShiftRight(BitAnd(NumberSegments(index), \H00F0), 4),
                     ShiftRight(BitAnd(NumberSegments(index), \H0F00), 8),
                     ShiftRight(BitAnd(NumberSegments(index), \HF000), 12) >>]
    ELSE IF LCDChar = ChSpace
    THEN [error |-> "NO_ERROR", out |-> <<0, 0, 0, 0>>]
    ELSE [error |-> "LCD_INVALID_CHAR", out |-> out]

\* GetLCDDRx computing the group as CharPosition / 2
GetLCDDRxNoOffset(CharPosition, out) ==
    IF CharPosition >= 2 /\ CharPosition <= 7
    THEN [error |-> "NO_ERROR",
          out |-> << CharPosition \div 2, CharPosition % 2 >>]
    ELSE [error |-> "LCD_INVALID_POS", out |-> out]

\* GetLCDDRx accepting positions up to 9
GetLCDDRxWideRange(CharPosition, out) ==
    IF CharPosition >= 2 /\ CharPosition <= 9
    THEN [error |-> "NO_ERROR",
          out |-> << (CharPosition \div 2) - 1, CharPosition % 2 >>]
    ELSE [error |-> "LCD_INVALID_POS", out |-> out]

\* GetLCDDRx: out is <<*LCDDRx, *Nibble>> before the call
GetLCDDRx(CharPosition, out) ==
    IF CharPosition >= 2 /\ CharPosition <= 7
    THEN [error |-> "NO_ERROR",
          out |-> << (CharPosition \div 2) - 1, CharPosition % 2 >>]
    ELSE [error |-> "LCD_INVALID_POS", out |-> out]

\* the assignment as LCDDRn |= value: the cell's old nibble is not cleared
NibbleStoreNoClear(old, Nibble, value) ==
    IF Nibble = 0
    THEN ToByte(BitOr(old, value))
    ELSE ToByte(BitOr(old, ShiftLeft(value, 4)))

\* the assignment as LCDDRn ^= value: the segments are toggled
NibbleStoreToggle(old, Nibble, value) ==
    LET v == IF Nibble = 0 THEN value ELSE ShiftLeft(value, 4)
    IN ToByte(old + v - 2 * BitAnd(old, v))

\* the assignment with the masks of the two nibbles exchanged
NibbleStoreWrongMask(old, Nibble, value) ==
    IF Nibble = 0
    THEN ToByte(BitOr(BitAnd(old, \H0F), value))
    ELSE ToByte(BitOr(BitAnd(old, \HF0), ShiftLeft(value, 4)))

\* the right-hand side of one register assignment of LCDWrite
NibbleStore(old, Nibble, value) ==
    IF Nibble = 0
    THEN ToByte(BitOr(BitAnd(old, \HF0), value))
    ELSE ToByte(BitOr(BitAnd(old, \H0F), ShiftLeft(value, 4)))

----------------------------------------------------------------------------
(* lcd.c: state *)

\* the threads of execution that may call LCDWrite
Procs == {1, 2}

\* the activation record of LCDWrite before its parameters are bound
IdleFrame ==
    [pc |-> "idle", LCDChar |-> Undef, Position |-> Undef,
     LCDDRx |-> Undef, Nibble |-> Undef,
     Values |-> <<Undef, Undef, Undef, Undef>>,
     error |-> "undef", k |-> 0, tmp |-> Undef]

ZeroBank == [r \in Regs |-> 0]

\* register contents InitLCD may find: every register different, and all ones
PowerOnBanks ==
    { [r \in Regs |-> (37 * r + 90) % 256], [r \in Regs |-> 255] }

\* cells of the display, and the history value of a cell never written
Cells == 2 .. 7
NoCells == [p \in Cells |-> Undef]

\* arguments the callers of Spec pass: '1' '3' '5' '7' '8' ' ', and the invalid
\* ':' and '0' + 128 as a signed char (SpecAll passes every character)
Chars == {49, 51, 53, 55, 56, ChSpace, 58, -80}

\* positions the callers of Spec pass (unsigned char)
Positions == Cells \cup {1, 8, 130}

\* every value a char argument can have in some build, and every unsigned char
AllChars == -128 .. 255
AllPositions == 0 .. 255

----------------------------------------------------------------------------
(* lcd.c: operations *)

Quiet == \A self \in Procs : frame[self].pc = "idle"

\* InitLCD with the statement LCDDR17 = 0 left out
InitLCDMissesOne ==
    /\ Quiet
    /\ bank' = [r \in Regs |-> IF r = 17 THEN bank[r] ELSE 0]
    /\ bankAtCall' = bank'
    /\ shown' = NoCells
    /\ inited' = TRUE
    /\ twice' = FALSE
    /\ UNCHANGED <<frame, reported, calls, torn, dtoaVars>>

\* InitLCD: the control registers are not modelled; all data registers := 0
InitLCD ==
    /\ Quiet
    /\ bank' = [r \in Regs |-> 0]
    /\ bankAtCall' = bank'
    /\ shown' = NoCells
    /\ inited' = TRUE
    /\ twice' = FALSE
    /\ UNCHANGED <<frame, reported, calls, torn, dtoaVars>>

\* a caller enters LCDWrite(LCDChar, Position)
Call(self, LCDChar, Position) ==
    /\ frame[self].pc = "idle"
    /\ frame' = [frame EXCEPT ![self] =
                    [IdleFrame EXCEPT !.pc = "if", !.LCDChar = LCDChar,
                                      !.Position = Position]]
    /\ bankAtCall' = bank
    /\ reported' = IF Quiet THEN <<>> ELSE reported
    /\ twice' = FALSE
    /\ calls' = calls + 1
    /\ UNCHANGED <<bank, shown, inited, torn, dtoaVars>>

\* LCDWrite returns and its caller calls it again with the same arguments
CallAgain(self) ==
    /\ frame[self].pc = "ret"
    /\ frame' = [frame EXCEPT ![self] =
                    [IdleFrame EXCEPT !.pc = "if",
                                      !.LCDChar = frame[self].LCDChar,
                                      !.Position = frame[self].Position]]
    /\ shown' = IF frame[self].error = "NO_ERROR" /\ inited
                THEN [shown EXCEPT ![frame[self].Position] = frame[self].LCDChar]
                ELSE shown
    /\ bankAtCall' = bank
    /\ reported' = <<>>
    /\ twice' = TRUE
    /\ calls' = calls + 1
    /\ UNCHANGED <<bank, inited, torn, dtoaVars>>

\* the condition with its operands exchanged: the character is resolved first
IfCondCharFirst(self) ==
    /\ frame[self].pc = "if"
    /\ \E charIsSigned \in BOOLEAN :
        LET f  == frame[self]
            val == GetLCDDRValues(f.LCDChar, f.Values)
            pos == IF val.error = "NO_ERROR"
                   THEN GetLCDDRx(ToChar(f.Position, charIsSigned), <<f.LCDDRx, f.Nibble>>)
                   ELSE [error |-> val.error, out |-> <<f.LCDDRx, f.Nibble>>]
        IN frame' = [frame EXCEPT ![self] =
                [f EXCEPT !.LCDDRx = pos.out[1], !.Nibble = pos.out[2],
                          !.Values = val.out, !.error = pos.error,
                          !.k = IF pos.error = "NO_ERROR" /\ CaseRegs(pos.out[1]) # <<>>
                                THEN 1 ELSE 0,
                          !.pc = IF pos.error # "NO_ERROR" THEN "report"
                                 ELSE IF CaseRegs(pos.out[1]) # <<>> THEN "write"
                                 ELSE "ret"]]
    /\ UNCHANGED <<bank, reported, bankAtCall, twice, shown, inited, calls, torn, dtoaVars>>

\* the condition of LCDWrite's if: GetLCDDRx, and only when it succeeds
\* GetLCDDRValues; then the switch on LCDDRx
IfCond(self) ==
    /\ frame[self].pc = "if"
    /\ \E charIsSigned \in BOOLEAN :
        LET f  == frame[self]
            pos == GetLCDDRx(ToChar(f.Position, charIsSigned), <<f.LCDDRx, f.Nibble>>)
            val == IF pos.error = "NO_ERROR"
                   THEN GetLCDDRValues(f.LCDChar, f.Values)
                   ELSE [error |-> pos.error, out |-> f.Values]
        IN frame' = [frame EXCEPT ![self] =
                [f EXCEPT !.LCDDRx = pos.out[1], !.Nibble = pos.out[2],
                          !.Values = val.out, !.error = val.error,
                          !.k = IF val.error = "NO_ERROR" /\ CaseRegs(pos.out[1]) # <<>>
                                THEN 1 ELSE 0,
                          !.pc = IF val.error # "NO_ERROR" THEN "report"
                                 ELSE IF CaseRegs(pos.out[1]) # <<>> THEN "write"
                                 ELSE "ret"]]
    /\ UNCHANGED <<bank, reported, bankAtCall, twice, shown, inited, calls, torn, dtoaVars>>

\* after the k-th register statement
AfterStatement(f) ==
    IF f.k = 4 THEN [f EXCEPT !.pc = "ret", !.k = 0, !.tmp = Undef]
    ELSE [f EXCEPT !.pc = "write", !.k = f.k + 1, !.tmp = Undef]

\* one statement LCDDRn = (LCDDRn & mask) | value, uninterrupted
WriteReg(self) ==
    /\ frame[self].pc = "write"
    /\ LET f == frame[self]
           r == CaseRegs(f.LCDDRx)[f.k]
       IN /\ bank' = [bank EXCEPT ![r] = NibbleStore(bank[r], f.Nibble, f.Values[f.k])]
          /\ frame' = [frame EXCEPT ![self] = AfterStatement(f)]
    /\ UNCHANGED <<reported, bankAtCall, twice, shown, inited, calls, torn, dtoaVars>>

\* the else branch: ReportError(error)
Report(self) ==
    /\ frame[self].pc = "report"
    /\ reported' = Append(reported, frame[self].error)
    /\ frame' = [frame EXCEPT ![self].pc = "ret"]
    /\ UNCHANGED <<bank, bankAtCall, twice, shown, inited, calls, torn, dtoaVars>>

\* LCDWrite returns
Return(self) ==
    /\ frame[self].pc = "ret"
    /\ frame' = [frame EXCEPT ![self] = IdleFrame]
    /\ shown' = IF frame[self].error = "NO_ERROR" /\ inited
                THEN [shown EXCEPT ![frame[self].Position] = frame[self].LCDChar]
                ELSE shown
    /\ twice' = FALSE
    /\ reported' = IF \A other \in Procs \ {self} : frame[other].pc = "idle"
                   THEN <<>> ELSE reported
    /\ bankAtCall' = bank
    /\ UNCHANGED <<bank, inited, calls, torn, dtoaVars>>

----------------------------------------------------------------------------
(* dtoa.c *)

\* largest sample the callers pass: the interface is 12 bits
MaxSample == 4095

\* the state at reset, before InitLCD and InitDtoA: the LCD data registers
\* hold what they held, the port and SPI registers their reset values
Init ==
    /\ bank \in PowerOnBanks
    /\ frame = [self \in Procs |-> IdleFrame]
    /\ reported = <<>>
    /\ bankAtCall = bank
    /\ twice = FALSE
    /\ shown = NoCells
    /\ inited = FALSE
    /\ calls = 0
    /\ torn = FALSE
    /\ dpc = "reset"
    /\ Value = 0
    /\ csHigh = FALSE
    /\ SPIF = FALSE
    /\ shifting = FALSE
    /\ sample = 0
    /\ trace = <<>>
    /\ polls = <<>>
    /\ pollAt = <<>>
    /\ log = 0

\* entry of WriteDtoASample(v)
Enter(v) ==
    /\ Value' = v
    /\ sample' = v
    /\ trace' = <<>>
    /\ polls' = <<>>
    /\ pollAt' = <<>>
    /\ log' = 0
    /\ dpc' = "shift"

\* InitDtoA: SPCR and SPSR are configured (not modelled), the D/A is
\* deselected, and WriteDtoASample(0) is called
InitDtoA ==
    /\ dpc = "reset"
    /\ csHigh' = TRUE
    /\ Enter(0)
    /\ UNCHANGED <<SPIF, shifting, lcdVars>>

\* a later call WriteDtoASample(v)
CallWrite(v) ==
    /\ dpc = "idle"
    /\ Enter(v)
    /\ UNCHANGED <<csHigh, SPIF, shifting, lcdVars>>

\* the shift done in an 8-bit variable
ShiftValueNarrow ==
    /\ dpc = "shift"
    /\ Value' = ShiftLeft(Value, 2) % 256
    /\ dpc' = "select"
    /\ UNCHANGED <<csHigh, SPIF, shifting, sample, trace, polls, pollAt, log, lcdVars>>

\* 1. Value = Value << 2, in 16-bit unsigned int
ShiftValue ==
    /\ dpc = "shift"
    /\ Value' = ShiftLeft(Value, 2) % 65536
    /\ dpc' = "select"
    /\ UNCHANGED <<csHigh, SPIF, shifting, sample, trace, polls, pollAt, log, lcdVars>>

\* 2. CLEAR_BIT(PORTB, D2A_CS_BIT)
Select ==
    /\ dpc = "select"
    /\ csHigh' = FALSE
    /\ trace' = Append(trace, <<"select", 0, FALSE>>)
    /\ dpc' = "poll1"
    /\ UNCHANGED <<Value, SPIF, shifting, sample, polls, pollAt, log, lcdVars>>

\* the poll giving up the transfer when it sees a collision
PollAtAbort(here, next) ==
    /\ dpc = here
    /\ \E wcol \in BOOLEAN :
        /\ polls' = Append(polls, wcol)
        /\ pollAt' = Append(pollAt, Len(trace))
        /\ log' = IF wcol THEN log + 1 ELSE log
        /\ dpc' = IF wcol THEN "deselect" ELSE next
    /\ UNCHANGED <<Value, csHigh, SPIF, shifting, sample, trace, lcdVars>>

\* if (SPSR & (1 << 6)) SCIWriteString_P(...): the flag is whatever the
\* hardware shows at the read
PollAt(here, next) ==
    /\ dpc = here
    /\ \E wcol \in BOOLEAN :
        /\ polls' = Append(polls, wcol)
        /\ pollAt' = Append(pollAt, Len(trace))
        /\ log' = IF wcol THEN log + 1 ELSE log
    /\ dpc' = next
    /\ UNCHANGED <<Value, csHigh, SPIF, shifting, sample, trace, lcdVars>>

\* 3. and 6.
Poll1 == PollAt("poll1", "msb")
Poll2 == PollAt("poll2", "lsb")

\* SPDR = byte: the hardware starts shifting and clears SPIF (SPSR was read
\* just before)
WriteSPDR(here, next, byte) ==
    /\ dpc = here
    /\ shifting' = TRUE
    /\ SPIF' = FALSE
    /\ trace' = Append(trace, <<"write", byte, csHigh>>)
    /\ dpc' = next
    /\ UNCHANGED <<Value, csHigh, sample, polls, pollAt, log, lcdVars>>

\* 4. SPDR = (unsigned char)(Value >> 8)
WriteMSB == WriteSPDR("msb", "wait1", ToByte(ShiftRight(Value, 8)))

\* 7. SPDR = (unsigned char)Value
WriteLSB == WriteSPDR("lsb", "wait2", ToByte(Value))

\* the SPI hardware finishes shifting the byte
ShiftDone ==
    /\ shifting
    /\ shifting' = FALSE
    /\ SPIF' = TRUE
    /\ UNCHANGED <<dpc, Value, csHigh, sample, trace, polls, pollAt, log, lcdVars>>

\* the wait as an if: SPIF is read once and the function goes on
WaitAtOnce(here, next) ==
    /\ dpc = here
    /\ dpc' = next
    /\ trace' = IF SPIF THEN Append(trace, <<"complete", 0, csHigh>>) ELSE trace
    /\ UNCHANGED <<Value, csHigh, SPIF, shifting, sample, polls, pollAt, log, lcdVars>>

\* the loop condition inverted: while(SPSR & (1 << SPIF));
WaitAtInverted(here, next) ==
    /\ dpc = here
    /\ IF ~SPIF
       THEN /\ dpc' = next
            /\ trace' = Append(trace, <<"complete", 0, csHigh>>)
       ELSE UNCHANGED <<dpc, trace>>
    /\ UNCHANGED <<Value, csHigh, SPIF, shifting, sample, polls, pollAt, log, lcdVars>>

\* one evaluation of while(!(SPSR & (1 << SPIF)));
WaitAt(here, next) ==
    /\ dpc = here
    /\ IF SPIF
       THEN /\ dpc' = next
            /\ trace' = Append(trace, <<"complete", 0, csHigh>>)
       ELSE UNCHANGED <<dpc, trace>>
    /\ UNCHANGED <<Value, csHigh, SPIF, shifting, sample, polls, pollAt, log, lcdVars>>

\* the first wait going straight on to the second byte, step 6 left out
Wait1SkipPoll == WaitAt("wait1", "lsb")

\* 5. and 8.
Wait1 == WaitAt("wait1", "poll2")
Wait2 == WaitAt("wait2", "deselect")

\* 9. SET_BIT(PORTB, D2A_CS_BIT)
Deselect ==
    /\ dpc = "deselect"
    /\ csHigh' = TRUE
    /\ trace' = Append(trace, <<"deselect", 0, TRUE>>)
    /\ dpc' = "done"
    /\ UNCHANGED <<Value, SPIF, shifting, sample, polls, pollAt, log, lcdVars>>

\* WriteDtoASample returns
ReturnSample ==
    /\ dpc = "done"
    /\ dpc' = "idle"
    /\ Value' = 0
    /\ sample' = 0
    /\ trace' = <<>>
    /\ polls' = <<>>
    /\ pollAt' = <<>>
    /\ log' = 0
    /\ UNCHANGED <<csHigh, SPIF, shifting, lcdVars>>

NextDtoA ==
    \/ InitDtoA
    \/ dpc = "idle" /\ \E v \in 0 .. MaxSample : CallWrite(v)
    \/ ShiftValue
    \/ Select
    \/ Poll1
    \/ WriteMSB
    \/ Wait1
    \/ Poll2
    \/ WriteLSB
    \/ Wait2
    \/ Deselect
    \/ ReturnSample
    \/ ShiftDone

SpecDtoA == Init /\ [][NextDtoA]_vars

\* the D/A driver on a processor that keeps executing the function it is in,
\* with SPI hardware that finishes every transfer it has started
SpecDtoAFair ==
    /\ Init
    /\ [][NextDtoA]_vars
    /\ WF_vars(ShiftValue \/ Select \/ Poll1 \/ WriteMSB \/ Wait1 \/ Poll2
                  \/ WriteLSB \/ Wait2 \/ Deselect \/ ReturnSample)
    /\ WF_vars(ShiftDone)

----------------------------------------------------------------------------
(* One caller, calls in sequence *)

Next ==
    \/ InitLCD
    \/ calls < MaxCalls /\ frame[1].pc = "idle"
         /\ \E c \in Chars, p \in Positions : Call(1, c, p)
    \/ calls < MaxCalls /\ CallAgain(1)
    \/ IfCond(1)
    \/ WriteReg(1)
    \/ Report(1)
    \/ Return(1)

Spec == Init /\ [][Next]_vars

----------------------------------------------------------------------------
(* One caller, one call, every argument *)

NextAll ==
    \/ InitLCD
    \/ calls = 0 /\ frame[1].pc = "idle"
         /\ \E c \in AllChars, p \in AllPositions : Call(1, c, p)
    \/ IfCond(1)
    \/ WriteReg(1)
    \/ Report(1)
    \/ Return(1)

SpecAll == Init /\ [][NextAll]_vars

----------------------------------------------------------------------------
(* Two callers at once, each register assignment a load and a store *)

\* the load of LCDDRn in LCDDRn = (LCDDRn & mask) | value
ReadReg(self) ==
    /\ frame[self].pc = "write"
    /\ LET f == frame[self]
           r == CaseRegs(f.LCDDRx)[f.k]
       IN frame' = [frame EXCEPT ![self] = [f EXCEPT !.pc = "store", !.tmp = bank[r]]]
    /\ UNCHANGED <<bank, reported, bankAtCall, twice, shown, inited, calls, torn, dtoaVars>>

\* the store to LCDDRn of the value computed from what was loaded
StoreReg(self) ==
    /\ frame[self].pc = "store"
    /\ LET f == frame[self]
           r == CaseRegs(f.LCDDRx)[f.k]
       IN /\ bank' = [bank EXCEPT ![r] = NibbleStore(f.tmp, f.Nibble, f.Values[f.k])]
          /\ torn' = (torn \/ bank[r] # f.tmp)
          /\ frame' = [frame EXCEPT ![self] = AfterStatement(f)]
    /\ UNCHANGED <<reported, bankAtCall, twice, shown, inited, calls, dtoaVars>>

\* arguments the two concurrent callers pass: '5' '7' '8' ' ', to the two
\* cells of group 0 and the first cell of group 1
ConcChars == {53, 55, 56, ChSpace}
ConcCells == {2, 3, 4}

InitConc ==
    /\ bank \in PowerOnBanks \cup {ZeroBank}
    /\ frame = [self \in Procs |-> IdleFrame]
    /\ reported = <<>>
    /\ bankAtCall = bank
    /\ twice = FALSE
    /\ shown = NoCells
    /\ inited = (bank = ZeroBank)
    /\ calls = 0
    /\ torn = FALSE
    /\ dpc = "reset"
    /\ Value = 0
    /\ csHigh = FALSE
    /\ SPIF = FALSE
    /\ shifting = FALSE
    /\ sample = 0
    /\ trace = <<>>
    /\ polls = <<>>
    /\ pollAt = <<>>
    /\ log = 0

\* each caller makes one call, with valid arguments, and stays at its return
NextConc ==
    \E self \in Procs :
        \/ frame[self].pc = "idle"
             /\ \E c \in ConcChars, p \in ConcCells : Call(self, c, p)
        \/ IfCond(self)
        \/ ReadReg(self)
        \/ StoreReg(self)

SpecConc == InitConc /\ [][NextConc]_vars

----------------------------------------------------------------------------
(* The stated contract of the LCD driver: vocabulary *)

\* the characters and positions the contract calls valid
ValidChar(c) == c \in (48 .. 57) \cup {32}
ValidPos(p) == p \in 2 .. 7

\* the codebook of the contract, digit 0 to 9
Codebook ==
    << \H1551, \H0110, \H1E11, \H1B11, \H0B50, \H1B41, \H1F40, \H0111, \H1F51, \H0B51 >>

\* the segment pattern of a valid character, and its nibble j (0 = bits 3:0)
Pattern(c) == IF c = 32 THEN 0 ELSE Codebook[c - 47]
PatternNibble(c, j) == (Pattern(c) \div (16 ^ j)) % 16

\* nibble sel (0 = low, 1 = high) of a register byte
NibbleOf(x, sel) == IF sel = 0 THEN x % 16 ELSE x \div 16

\* the call of caller 1 has run its if condition
Resolved == frame[1].pc \in {"write", "report", "ret"}

----------------------------------------------------------------------------
(* Claims *)

\* C1: when LCDWrite(c, p) with a valid character and a valid position is about
\* to return, each of the four registers g, g+5, g+10, g+15 of group
\* g = (p/2)-1 has nibble p mod 2 equal to bits [3:0], [7:4], [11:8], [15:12]
\* of the pattern of c and its other nibble as at the call, and every other
\* register is as at the call.
C1_FrameEffect ==
    LET f == frame[1] IN
    (f.pc = "ret" /\ ValidChar(f.LCDChar) /\ ValidPos(f.Position)) =>
        LET g   == (f.Position \div 2) - 1
            sel == f.Position % 2
        IN \A r \in Regs :
            IF r \in {g, g + 5, g + 10, g + 15}
            THEN /\ NibbleOf(bank[r], sel) = PatternNibble(f.LCDChar, (r - g) \div 5)
                 /\ NibbleOf(bank[r], 1 - sel) = NibbleOf(bankAtCall[r], 1 - sel)
            ELSE bank[r] = bankAtCall[r]

\* C1 witness: LCDWrite('3', 4) on the power-on bank with all registers
\* different has set the low nibbles of LCDDR1, 6, 11, 16 to 1, 1, B, 1 and
\* kept their high nibbles 7, 3, F, A.
C1_Witness ==
    /\ frame[1].pc = "ret" /\ frame[1].LCDChar = 51 /\ frame[1].Position = 4
    /\ <<bankAtCall[1], bankAtCall[6], bankAtCall[11], bankAtCall[16]>>
         = <<\H7F, \H38, \HF1, \HAA>>
    /\ <<bank[1], bank[6], bank[11], bank[16]>> = <<\H71, \H31, \HFB, \HA1>>

\* C2: during and at the end of LCDWrite(c, p) with a valid position and an
\* invalid character, the bank equals the bank at the call at every step, the
\* call never reaches a register statement, and ReportError has received
\* exactly LCD_INVALID_CHAR when the call is about to return (nothing before).
C2_InvalidCharNoWrite ==
    LET f == frame[1] IN
    (f.pc # "idle" /\ ValidPos(f.Position) /\ ~ValidChar(f.LCDChar)) =>
        /\ bank = bankAtCall
        /\ f.pc \in {"if", "report", "ret"}
        /\ reported = IF f.pc = "ret" THEN <<"LCD_INVALID_CHAR">> ELSE <<>>

\* C2 witness: LCDWrite('A', 5) is about to return, having reported once.
C2_Witness ==
    /\ frame[1].pc = "ret" /\ frame[1].LCDChar = 65 /\ frame[1].Position = 5
    /\ reported = <<"LCD_INVALID_CHAR">>

\* C3: during and at the end of LCDWrite(c, p) with a position outside [2,7]
\* and any character, the bank equals the bank at the call at every step, and
\* ReportError has received exactly LCD_INVALID_POS when the call is about to
\* return, also when the character is invalid too.
C3_InvalidPosNoWrite ==
    LET f == frame[1] IN
    (f.pc # "idle" /\ ~ValidPos(f.Position)) =>
        /\ bank = bankAtCall
        /\ f.pc \in {"if", "report", "ret"}
        /\ reported = IF f.pc = "ret" THEN <<"LCD_INVALID_POS">> ELSE <<>>

\* C3 witness: LCDWrite('A', 200), both arguments invalid, is about to return.
C3_Witness ==
    /\ frame[1].pc = "ret" /\ frame[1].LCDChar = 65 /\ frame[1].Position = 200
    /\ reported = <<"LCD_INVALID_POS">>

\* C4: between calls, after InitLCD, the four nibbles owned by each cell p
\* (nibble p mod 2 of the registers of group (p/2)-1) are the pattern of the
\* character of the last successful LCDWrite to p since InitLCD, or 0.
C4_CellsShowLastWrite ==
    (inited /\ frame[1].pc = "idle") =>
        \A p \in 2 .. 7 : \A j \in 0 .. 3 :
            NibbleOf(bank[(p \div 2) - 1 + 5 * j], p % 2)
              = IF shown[p] = Undef THEN 0 ELSE PatternNibble(shown[p], j)

\* C4 witness: after InitLCD, '5' was written to cell 2 and '7' to its
\* neighbour cell 3, which share LCDDR0, 5, 10, 15.
C4_Witness ==
    /\ inited /\ frame[1].pc = "idle"
    /\ shown[2] = 53 /\ shown[3] = 55
    /\ <<bank[0], bank[5], bank[10], bank[15]>> = <<\H11, \H14, \H1B, \H01>>

\* C7: when LCDWrite(c, p) is about to return from a call that directly
\* repeats the previous call's arguments, the bank equals the bank the previous
\* call left.
C7_Idempotent ==
    (twice /\ frame[1].pc = "ret") => bank = bankAtCall

\* C7 witness: the second of two successful LCDWrite('8', 3) is about to return.
C7_Witness ==
    /\ twice /\ frame[1].pc = "ret" /\ frame[1].error = "NO_ERROR"
    /\ frame[1].LCDChar = 56 /\ frame[1].Position = 3
    /\ bank[0] \div 16 = 1 /\ bank[5] \div 16 = 5

\* C8: once GetLCDDRValues has run, for a digit it returned NO_ERROR and the
\* nibbles [3:0], [7:4], [11:8], [15:12] of the codebook entry, for ' '
\* NO_ERROR and four zeros, for any other character LCD_INVALID_CHAR with its
\* outputs left unassigned; every nibble it returned is in 0..15.
C8_Codebook ==
    LET f == frame[1] IN
    (Resolved /\ ValidPos(f.Position)) =>
        /\ f.LCDChar \in 48 .. 57 =>
              /\ f.error = "NO_ERROR"
              /\ \A j \in 1 .. 4 :
                    f.Values[j] = (Codebook[f.LCDChar - 47] \div (16 ^ (j - 1))) % 16
        /\ f.LCDChar = 32 => (f.error = "NO_ERROR" /\ f.Values = <<0, 0, 0, 0>>)
        /\ ~ValidChar(f.LCDChar) =>
              (f.error = "LCD_INVALID_CHAR" /\ f.Values = <<Undef, Undef, Undef, Undef>>)
        /\ f.error = "NO_ERROR" => \A j \in 1 .. 4 : f.Values[j] \in 0 .. 15

\* C8 witness: GetLCDDRValues('4') returned the nibbles 0, 5, B, 0 of 0x0B50.
C8_Witness ==
    /\ Resolved /\ frame[1].LCDChar = 52 /\ frame[1].error = "NO_ERROR"
    /\ frame[1].Values = <<0, 5, 11, 0>>

\* C9: once GetLCDDRx has run, for p in [2,7] it returned group (p/2)-1, which
\* is 0, 1 or 2, and selector p mod 2; for any other p it returned
\* LCD_INVALID_POS with both outputs left unassigned; and distinct positions
\* in [2,7] resolve to distinct (group, selector) pairs.
C9_PositionRule ==
    LET f == frame[1] IN
    /\ Resolved =>
        /\ ValidPos(f.Position) =>
              /\ f.error # "LCD_INVALID_POS"
              /\ f.LCDDRx = (f.Position \div 2) - 1
              /\ f.LCDDRx \in {0, 1, 2}
              /\ f.Nibble = f.Position % 2
        /\ ~ValidPos(f.Position) =>
              (f.error = "LCD_INVALID_POS" /\ f.LCDDRx = Undef /\ f.Nibble = Undef)
    /\ \A p, q \in 2 .. 7 :
          p # q => GetLCDDRx(p, <<Undef, Undef>>).out # GetLCDDRx(q, <<Undef, Undef>>).out

\* C9 witness: GetLCDDRx(7) returned group 2, high nibble.
C9_Witness ==
    /\ Resolved /\ frame[1].Position = 7
    /\ frame[1].LCDDRx = 2 /\ frame[1].Nibble = 1

\* both concurrent calls are complete and went to the two cells of one group
BothDoneOneGroup ==
    /\ frame[1].pc = "ret" /\ frame[2].pc = "ret"
    /\ frame[1].Position # frame[2].Position
    /\ frame[1].Position \div 2 = frame[2].Position \div 2

\* each caller's cell holds the pattern of the character that caller wrote
EachCellHoldsItsPattern ==
    \A self \in Procs : \A j \in 0 .. 3 :
        NibbleOf(bank[(frame[self].Position \div 2) - 1 + 5 * j], frame[self].Position % 2)
          = PatternNibble(frame[self].LCDChar, j)

\* C5 (as stated): when two concurrent LCDWrite calls with valid characters to
\* the two cells of one group have completed, with their load and store steps
\* interleaved in any order, each cell holds the pattern written to it.
C5_ConcurrentCellsIntact ==
    BothDoneOneGroup => EachCellHoldsItsPattern

\* C5 (amended): the same, provided every store step found its register still
\* holding the value its load step had read.
C5_IntactUnlessTorn ==
    (BothDoneOneGroup /\ ~torn) => EachCellHoldsItsPattern

\* C5 witness: '5' to cell 2 and '7' to cell 3 have both completed, the two
\* callers having alternated register by register, and no store was stale.
C5_Witness ==
    /\ BothDoneOneGroup /\ ~torn
    /\ frame[1].LCDChar = 53 /\ frame[1].Position = 2
    /\ frame[2].LCDChar = 55 /\ frame[2].Position = 3
    /\ <<bank[0], bank[5], bank[10], bank[15]>> = <<\H11, \H14, \H1B, \H01>>

----------------------------------------------------------------------------
(* The stated contract of the D/A driver *)

\* what happened on the bus, without bytes and line levels
Names(tr) == [i \in 1 .. Len(tr) |-> tr[i][1]]

IsPrefix(a, b) == Len(a) <= Len(b) /\ \A i \in 1 .. Len(a) : a[i] = b[i]

\* the order of bus actions the contract states
BusOrder == <<"select", "write", "complete", "write", "complete", "deselect">>

\* the bus actions of a call for sample v, bytes and select-line levels included
FullTransfer(v) ==
    << <<"select", 0, FALSE>>,
       <<"write", ((4 * v) \div 256) % 256, FALSE>>,
       <<"complete", 0, FALSE>>,
       <<"write", (4 * v) % 256, FALSE>>,
       <<"complete", 0, FALSE>>,
       <<"deselect", 0, TRUE>> >>

\* C6: at every point of WriteDtoASample the bus actions so far are an initial
\* part of select, write, transfer observed complete, write, transfer observed
\* complete, deselect, and are all of it when the function is about to return;
\* every write and every observed completion happens with the select line
\* low; the first byte written is the high byte of the shifted value, the
\* second its low byte; the line is low from the select to the deselect.
C6_BusOrderKept ==
    /\ IsPrefix(Names(trace), BusOrder)
    /\ \A i \in 1 .. Len(trace) :
          trace[i][1] \in {"write", "complete"} => trace[i][3] = FALSE
    /\ dpc \in {"poll1", "msb", "wait1", "poll2", "lsb", "wait2", "deselect"} => ~csHigh
    /\ dpc = "done" =>
          /\ Names(trace) = BusOrder
          /\ csHigh
          /\ trace[2][2] = Value \div 256
          /\ trace[4][2] = Value % 256

\* C6 witness: WriteDtoASample(1023) is about to return after its six bus actions.
C6_Witness ==
    /\ dpc = "done" /\ sample = 1023 /\ csHigh
    /\ Len(trace) = 6 /\ trace[2] = <<"write", 15, FALSE>> /\ trace[4] = <<"write", 252, FALSE>>

\* C10: whatever the write-collision flag shows at the polls, the bus actions
\* of WriteDtoASample(v) are at every point an initial part of, and at the
\* return equal to, the one transfer that v alone determines, and the number of
\* collision messages equals the number of polls that saw the flag set.
C10_CollisionHarmless ==
    /\ dpc \notin {"reset", "idle"} => IsPrefix(trace, FullTransfer(sample))
    /\ dpc = "done" => trace = FullTransfer(sample)
    /\ log = Cardinality({i \in 1 .. Len(polls) : polls[i]})

\* C10 witness: WriteDtoASample(4095) is about to return, every poll having
\* seen a collision, with bytes 0x3F and 0xFC written.
C10_Witness ==
    /\ dpc = "done" /\ sample = 4095
    /\ Len(polls) > 0 /\ \A i \in 1 .. Len(polls) : polls[i]
    /\ log = Len(polls)
    /\ trace[2][2] = 63 /\ trace[4][2] = 252

\* the polls the code makes: one with only the select on the bus, one with the
\* first byte written and seen complete
PollPoints == <<1, 3>>

\* C11 as stated: by the time WriteDtoASample is about to return it has polled
\* the write-collision flag after the select and before the first byte, after
\* the first transfer completes and before the second byte, and after the
\* second transfer completes and before the deselect.
C11_PollAroundEachTransfer ==
    dpc = "done" =>
        /\ \E i \in 1 .. Len(pollAt) : pollAt[i] = 1
        /\ \E i \in 1 .. Len(pollAt) : pollAt[i] = 3
        /\ \E i \in 1 .. Len(pollAt) : pollAt[i] = 5

\* C11: WriteDtoASample polls the write-collision flag exactly twice, before
\* each of the two byte writes: once after the select and before the first
\* byte, once after the first transfer is seen complete and before the second
\* byte; no poll follows the second transfer, and every poll happens with the
\* device selected.
C11_PollBeforeEachWrite ==
    /\ Len(pollAt) = Len(polls)
    /\ IsPrefix(pollAt, PollPoints)
    /\ dpc \in {"msb", "wait1", "poll2"} => pollAt = <<1>>
    /\ dpc \in {"lsb", "wait2", "deselect", "done"} => pollAt = PollPoints
    /\ \A i \in 1 .. Len(pollAt) :
          /\ Names(trace)[pollAt[i]] \in {"select", "complete"}
          /\ pollAt[i] < Len(trace) => Names(trace)[pollAt[i] + 1] = "write"

\* C11 witness: WriteDtoASample(682) is about to deselect after both transfers,
\* having polled twice, the second poll having seen a collision.
C11_Witness ==
    /\ dpc = "deselect" /\ sample = 682 /\ Len(trace) = 5
    /\ pollAt = <<1, 3>> /\ polls = <<FALSE, TRUE>>

WaitPoints == {"wait1", "wait2"}

\* C12: with SPI hardware that finishes every transfer it has started, every
\* call of WriteDtoASample gets to the deselect and returns; a wait loop is
\* left only when it has read SPIF set, and the first evaluation that reads
\* SPIF set leaves it, for the poll after the first wait and for the deselect
\* after the second.
C12_BoundedSpin ==
    /\ (dpc = "shift") ~> (dpc = "done" /\ csHigh /\ Names(trace) = BusOrder)
    /\ (dpc = "done") ~> (dpc = "idle")
    /\ [][(dpc \in WaitPoints /\ dpc' # dpc) => SPIF]_vars
    /\ [][(dpc \in WaitPoints /\ SPIF) => dpc' = (IF dpc = "wait1" THEN "poll2" ELSE "deselect")]_vars

\* C12 witness: WriteDtoASample(2048) is spinning in its second wait loop, the
\* low byte still being shifted out and SPIF not yet set.
C12_Witness ==
    /\ dpc = "wait2" /\ sample = 2048 /\ shifting /\ ~SPIF /\ ~csHigh
    /\ Len(trace) = 4

\* C13: for every sample v of 0..MaxSample the shifted value is 4*v, below
\* 2^16; the first byte WriteDtoASample writes is ((4*v) div 256) mod 256, the
\* second (4*v) mod 256, and 256 * first + second = 4*v.
C13_BytesCarrySample ==
    /\ dpc \notin {"reset", "idle", "shift"} => Value = 4 * sample /\ Value < 65536
    /\ Len(trace) >= 2 => trace[2] = <<"write", ((4 * sample) \div 256) % 256, FALSE>>
    /\ Len(trace) >= 4 =>
          /\ trace[4] = <<"write", (4 * sample) % 256, FALSE>>
          /\ 256 * trace[2][2] + trace[4][2] = 4 * sample

\* C13 witness: WriteDtoASample(2730) has written 0x2A and then 0xA8, which
\* make 10920 = 4 * 2730.
C13_Witness ==
    /\ dpc = "wait2" /\ sample = 2730 /\ Value = 10920
    /\ trace[2][2] = 42 /\ trace[4][2] = 168

\* the data registers the three cases of LCDWrite's switch assign
WrittenRegs == {0, 1, 2, 5, 6, 7, 10, 11, 12, 15, 16, 17}

\* no LCDWrite has passed its if condition without an error since InitLCD
NothingWritten ==
    /\ inited
    /\ shown = NoCells
    /\ frame[1].pc = "idle" \/ frame[1].error # "NO_ERROR"

\* C14: once InitLCD has run, whatever the bank held before, each of LCDDR0,
\* 1, 2, 5, 6, 7, 10, 11, 12, 15, 16, 17 holds 0 and each cell of 2..7 shows
\* the blank pattern in its four nibbles, until an LCDWrite with valid
\* arguments starts writing.
C14_BlankAfterInit ==
    NothingWritten =>
        /\ \A r \in WrittenRegs : bank[r] = 0
        /\ \A p \in Cells : \A j \in 0 .. 3 :
              NibbleOf(bank[(p \div 2) - 1 + 5 * j], p % 2) = PatternNibble(ChSpace, j)

\* C14 witness: InitLCD has run on a bank that held no zero register, one
\* LCDWrite has been made and refused since, and all twelve registers are 0.
C14_Witness ==
    /\ inited /\ calls = 1 /\ shown = NoCells
    /\ frame[1].pc = "ret" /\ frame[1].error = "LCD_INVALID_POS"
    /\ \A r \in WrittenRegs : bank[r] = 0

\* C15: for every character and every position of 0..255, an LCDWrite whose
\* two resolutions both succeeded has group index 0, 1 or 2, for which the
\* switch has a case with four registers; the step that leaves the if
\* condition without an error goes to the first register statement, never
\* straight to the return.
C15_DefaultUnreachable ==
    /\ [](Resolved /\ frame[1].error = "NO_ERROR" =>
            /\ frame[1].LCDDRx \in {0, 1, 2}
            /\ Len(CaseRegs(frame[1].LCDDRx)) = 4)
    /\ [][(frame[1].pc = "if" /\ frame'[1].pc # "if" /\ frame'[1].error = "NO_ERROR")
            => (frame'[1].pc = "write" /\ frame'[1].k = 1)]_vars

\* C15 witness: LCDWrite('0', 7) is at the first register statement of case 2.
C15_Witness ==
    /\ frame[1].pc = "write" /\ frame[1].k = 1 /\ frame[1].error = "NO_ERROR"
    /\ frame[1].LCDChar = 48 /\ frame[1].Position = 7 /\ frame[1].LCDDRx = 2

\* the 24 orders of four statements
Orders == {q \in [1 .. 4 -> 1 .. 4] : \A i, j \in 1 .. 4 : q[i] = q[j] => i = j}

\* bank b after the register statements q[1], ..., q[n] of the case of frame f,
\* each statement reading its register as the statements before it left it
RECURSIVE InOrder(_, _, _, _)
InOrder(b, f, q, n) ==
    IF n = 0 THEN b
    ELSE LET before == InOrder(b, f, q, n - 1)
             r      == CaseRegs(f.LCDDRx)[q[n]]
         IN [before EXCEPT ![r] = NibbleStore(before[r], f.Nibble, f.Values[q[n]])]

\* C16: when an LCDWrite with valid arguments is about to return, the bank it
\* leaves equals the bank that its four register statements make of the bank
\* at the call in each of the 24 orders, and the four registers of its case
\* are different registers.
C16_OrderInsensitive ==
    LET f == frame[1] IN
    (f.pc = "ret" /\ f.error = "NO_ERROR") =>
        /\ \A q \in Orders : InOrder(bankAtCall, f, q, 4) = bank
        /\ \A i, j \in 1 .. 4 :
              CaseRegs(f.LCDDRx)[i] = CaseRegs(f.LCDDRx)[j] => i = j

\* C16 witness: LCDWrite('0', 2), whose four nibbles 1, 5, 5, 1 are not all
\* equal, is about to return from a bank with all registers different, and
\* the statements in reverse order make the same bank.
C16_Witness ==
    /\ frame[1].pc = "ret" /\ frame[1].error = "NO_ERROR"
    /\ frame[1].LCDChar = 48 /\ frame[1].Position = 2
    /\ <<bankAtCall[0], bankAtCall[5], bankAtCall[10], bankAtCall[15]>>
         = <<\H5A, \H13, \HCC, \H85>>
    /\ bank # bankAtCall
    /\ InOrder(bankAtCall, frame[1], [i \in 1 .. 4 |-> 5 - i], 4) = bank

====
